---- MODULE Spec2Model ----
(***************************************************************************)
(* Activation conditions of gremlin/base_classes.py: the four condition    *)
(* variants (Keyboard, Joystick, VJoy, InputAction) with their XML         *)
(* encoders, decoders and validity predicates, and the composite           *)
(* ActivationCondition that holds a list of them under a rule.             *)
(*                                                                         *)
(* Conventions of the model                                                *)
(*   - Python None is the empty sequence <<>>; a set value v is <<v>>.     *)
(*   - an operation that may raise returns a record whose field err is     *)
(*     "" on normal return and the name of the error kind otherwise; the   *)
(*     object it was mutating is returned as it stood when the error was   *)
(*     raised, since Python assignments made before a raise are kept.      *)
(*   - an XML element is [tag, attrib, children]; attrib is a function     *)
(*     from attribute names to strings.                                    *)
(*   - floats are kept in hundredths (-25 is -0.25); device_guid 0 is the  *)
(*     integer 0 of the constructor, n > 0 is the n-th GUID value.         *)
(***************************************************************************)
EXTENDS Integers, Sequences, FiniteSets, TLC

VARIABLES
    cond,       \* the condition instance under edit / decode
    cnode,      \* XML element last produced by, or handed to, the instance
    dec,        \* fresh instance of the same variant decoded from cnode
    cerr,       \* error kind raised by the last condition operation ("" = none)
    clast,      \* name of the last condition operation
    cpre,       \* the instance as it stood before its last from_xml
    self,       \* the ActivationCondition: [rule, conditions]
    inNode,     \* element handed to the last ActivationCondition.from_xml
    pre,        \* the ActivationCondition as it stood before that from_xml
    out,        \* element returned by the last ActivationCondition.to_xml
    err,        \* error kind raised by the last composite operation
    last,       \* name of the last composite operation
    oracle,     \* the input state the evaluator consults
    result,     \* what the last evaluate returned
    elast,      \* name of the last operation of the evaluation scenario
    heap,       \* the list objects: heap[i] is the content of list i
    caller,     \* the list the caller built and handed to the constructors
    acs,        \* the composites constructed from it: [rule, conditions],
                \* conditions being the list the composite refers to
    anode,      \* element handed to the last from_xml of one of them
    aerr,       \* error kind that from_xml raised ("" = none)
    alast       \* name of the last operation on the shared list

condVars == <<cond, cnode, dec, cerr, clast, cpre>>
acVars == <<self, inNode, pre, out, err, last>>
evVars == <<oracle, result, elast>>
alVars == <<heap, caller, acs, anode, aerr, alast>>
vars == <<cond, cnode, dec, cerr, clast, cpre, self, inNode, pre, out, err, last,
          oracle, result, elast, heap, caller, acs, anode, aerr, alast>>

None == <<>>
Some(v) == <<v>>

(***************************************************************************)
(* xml.etree.ElementTree                                                   *)
(***************************************************************************)
Element(tag) == [tag |-> tag, attrib |-> <<>>, children |-> <<>>]

NodeSet(node, key, value) ==
    [node EXCEPT !.attrib =
        [k \in (DOMAIN node.attrib) \cup {key} |->
            IF k = key THEN value ELSE node.attrib[k]]]

NodeAppend(node, child) ==
    [node EXCEPT !.children = Append(node.children, child)]

NodeFindall(node, tag) ==
    SelectSeq(node.children, LAMBDA c : c.tag = tag)

NodeHas(node, key) == key \in DOMAIN node.attrib

(***************************************************************************)
(* Python str(), int() and float() on the values the model draws           *)
(***************************************************************************)
IntLiterals ==
    { <<"0", 0>>, <<"1", 1>>, <<"2", 2>>, <<"30", 30>>, <<"030", 30>>,
      <<"57", 57>>, <<"+1", 1>> }

IntStr(i) ==
    CASE i = 0 -> "0" [] i = 1 -> "1" [] i = 2 -> "2"
      [] i = 30 -> "30" [] i = 57 -> "57" [] OTHER -> "?"

FloatLiterals ==
    { <<"-1.0", -100>>, <<"-0.25", -25>>, <<"0.0", 0>>, <<"0.75", 75>>,
      <<"1.0", 100>>, <<"0", 0>>, <<"1", 100>>, <<".75", 75>> }

FloatStr(f) ==
    CASE f = -100 -> "-1.0" [] f = -25 -> "-0.25" [] f = 0 -> "0.0"
      [] f = 75 -> "0.75" [] f = 100 -> "1.0" [] OTHER -> "?"

BoolStr(b) == IF b THEN "True" ELSE "False"

Lower(s) ==
    CASE s = "True" -> "true" [] s = "TRUE" -> "true"
      [] s = "False" -> "false" [] s = "FALSE" -> "false" [] OTHER -> s

OptIntStr(o) == IF o = None THEN "None" ELSE IntStr(o[1])
OptBoolStr(o) == IF o = None THEN "None" ELSE BoolStr(o[1])

Ok(v) == [err |-> "", val |-> v]
Raise(kind) == [err |-> kind]

(***************************************************************************)
(* gremlin.util and gremlin.types (not part of base_classes.py)            *)
(***************************************************************************)
\* int(s) and float(s) as type_cast of safe_read applies them
python_int(s) ==
    IF \E p \in IntLiterals : p[1] = s
    THEN Ok((CHOOSE p \in IntLiterals : p[1] = s)[2])
    ELSE Raise("SchemaError")

python_float(s) ==
    IF \E p \in FloatLiterals : p[1] = s
    THEN Ok((CHOOSE p \in FloatLiterals : p[1] = s)[2])
    ELSE Raise("SchemaError")

safe_read(node, key, type_cast) ==
    IF ~NodeHas(node, key) THEN Raise("SchemaError")
    ELSE LET s == node.attrib[key] IN
         CASE type_cast = "int" -> python_int(s)
           [] type_cast = "float" -> python_float(s)
           [] OTHER -> Ok(s)

parse_bool(s) ==
    CASE Lower(s) \in {"true", "1"} -> Ok(TRUE)
      [] Lower(s) \in {"false", "0"} -> Ok(FALSE)
      [] OTHER -> Raise("SchemaError")

GuidLiterals ==
    { <<"{4d1e55b2-f16f-11cf-88cb-001111000030}", 1>>,
      <<"4d1e55b2-f16f-11cf-88cb-001111000030", 1>> }

GuidStr(g) ==
    IF g = 0 THEN "0" ELSE "{4d1e55b2-f16f-11cf-88cb-001111000030}"

\* node.get(key) followed by parse_guid: a missing attribute is None
parse_guid(node, key) ==
    IF ~NodeHas(node, key) THEN Raise("SchemaError")
    ELSE LET s == node.attrib[key] IN
         IF \E p \in GuidLiterals : p[1] = s
         THEN Ok((CHOOSE p \in GuidLiterals : p[1] = s)[2])
         ELSE Raise("SchemaError")

InputTypes == {"JoystickAxis", "JoystickButton", "JoystickHat"}

InputTypeNames ==
    { <<"axis", "JoystickAxis">>, <<"button", "JoystickButton">>,
      <<"hat", "JoystickHat">> }

InputType_to_string(t) ==
    IF t = None THEN Raise("Error")
    ELSE Ok((CHOOSE p \in InputTypeNames : p[2] = t[1])[1])

InputType_to_enum(s) ==
    IF \E p \in InputTypeNames : p[1] = s
    THEN Ok((CHOOSE p \in InputTypeNames : p[1] = s)[2])
    ELSE Raise("SchemaError")

Fail(obj, kind) == [obj |-> obj, err |-> kind]
Done(obj) == [obj |-> obj, err |-> ""]

(***************************************************************************)
(* AbstractCondition                                                       *)
(***************************************************************************)
AbstractCondition_is_valid(c) == c.comparison # ""

(***************************************************************************)
(* KeyboardCondition                                                       *)
(***************************************************************************)
KeyboardCondition_init ==
    [kind |-> "keyboard", comparison |-> "", scan_code |-> None,
     is_extended |-> None]

KeyboardCondition_from_xml(c, node) ==
    LET r1 == safe_read(node, "comparison", "str") IN
    IF r1.err # "" THEN Fail(c, r1.err) ELSE
    LET c1 == [c EXCEPT !.comparison = r1.val]
        r2 == safe_read(node, "scan-code", "int") IN
    IF r2.err # "" THEN Fail(c1, r2.err) ELSE
    LET c2 == [c1 EXCEPT !.scan_code = Some(r2.val)]
        r3 == safe_read(node, "extended", "str") IN
    IF r3.err # "" THEN Fail(c2, r3.err) ELSE
    LET r4 == parse_bool(r3.val) IN
    IF r4.err # "" THEN Fail(c2, r4.err) ELSE
    Done([c2 EXCEPT !.is_extended = Some(r4.val)])

KeyboardCondition_to_xml(c) ==
    LET n0 == Element("condition")
        n1 == NodeSet(n0, "condition-type", "keyboard")
        n2 == NodeSet(n1, "input", "keyboard")
        n3 == NodeSet(n2, "comparison", c.comparison)
        n4 == NodeSet(n3, "scan-code", OptIntStr(c.scan_code))
        n5 == NodeSet(n4, "extended", OptBoolStr(c.is_extended))
    IN  [node |-> n5, err |-> ""]

\* KeyboardCondition.is_valid without the test of is_extended
KeyboardCondition_is_valid_no_extended(c) ==
    /\ AbstractCondition_is_valid(c)
    /\ c.scan_code # None

KeyboardCondition_is_valid(c) ==
    /\ AbstractCondition_is_valid(c)
    /\ c.scan_code # None
    /\ c.is_extended # None

(***************************************************************************)
(* JoystickCondition                                                       *)
(***************************************************************************)
JoystickCondition_init ==
    [kind |-> "joystick", comparison |-> "", device_guid |-> 0,
     input_type |-> None, input_id |-> 0, range |-> <<0, 0>>,
     device_name |-> ""]

\* ReadRange without the test of input_type: range is read for every input
ReadRange_always(c, node) ==
    LET lo == safe_read(node, "range-low", "float") IN
    IF lo.err # "" THEN Fail(c, lo.err) ELSE
    LET hi == safe_read(node, "range-high", "float") IN
    IF hi.err # "" THEN Fail(c, hi.err) ELSE
    Done([c EXCEPT !.range = <<lo.val, hi.val>>])

\* ReadRange putting the constructor's range back when the input is no axis
ReadRange_resetting(c, node) ==
    IF c.input_type # Some("JoystickAxis")
    THEN Done([c EXCEPT !.range = <<0, 0>>]) ELSE
    LET lo == safe_read(node, "range-low", "float") IN
    IF lo.err # "" THEN Fail(c, lo.err) ELSE
    LET hi == safe_read(node, "range-high", "float") IN
    IF hi.err # "" THEN Fail(c, hi.err) ELSE
    Done([c EXCEPT !.range = <<lo.val, hi.val>>])

\* the tail shared by JoystickCondition.from_xml and VJoyCondition.from_xml:
\* range is read, and assigned, only for an axis
ReadRange(c, node) ==
    IF c.input_type # Some("JoystickAxis") THEN Done(c) ELSE
    LET lo == safe_read(node, "range-low", "float") IN
    IF lo.err # "" THEN Fail(c, lo.err) ELSE
    LET hi == safe_read(node, "range-high", "float") IN
    IF hi.err # "" THEN Fail(c, hi.err) ELSE
    Done([c EXCEPT !.range = <<lo.val, hi.val>>])

JoystickCondition_from_xml(c, node) ==
    LET r1 == safe_read(node, "comparison", "str") IN
    IF r1.err # "" THEN Fail(c, r1.err) ELSE
    LET c1 == [c EXCEPT !.comparison = r1.val]
        r2 == safe_read(node, "input", "str") IN
    IF r2.err # "" THEN Fail(c1, r2.err) ELSE
    LET r3 == InputType_to_enum(r2.val) IN
    IF r3.err # "" THEN Fail(c1, r3.err) ELSE
    LET c2 == [c1 EXCEPT !.input_type = Some(r3.val)]
        r4 == safe_read(node, "id", "int") IN
    IF r4.err # "" THEN Fail(c2, r4.err) ELSE
    LET c3 == [c2 EXCEPT !.input_id = r4.val]
        r5 == parse_guid(node, "device-guid") IN
    IF r5.err # "" THEN Fail(c3, r5.err) ELSE
    LET c4 == [c3 EXCEPT !.device_guid = r5.val]
        r6 == safe_read(node, "device-name", "str") IN
    IF r6.err # "" THEN Fail(c4, r6.err) ELSE
    ReadRange([c4 EXCEPT !.device_name = r6.val], node)

\* the tail shared by JoystickCondition.to_xml and VJoyCondition.to_xml
WriteRange(c, node) ==
    IF c.input_type = Some("JoystickAxis")
    THEN NodeSet(NodeSet(node, "range-low", FloatStr(c.range[1])),
                 "range-high", FloatStr(c.range[2]))
    ELSE node

JoystickCondition_to_xml(c) ==
    LET n0 == Element("condition")
        n1 == NodeSet(n0, "comparison", c.comparison)
        n2 == NodeSet(n1, "condition-type", "joystick")
        t  == InputType_to_string(c.input_type)
    IN  IF t.err # "" THEN [node |-> n2, err |-> t.err] ELSE
        LET n3 == NodeSet(n2, "input", t.val)
            n4 == NodeSet(n3, "id", IntStr(c.input_id))
            n5 == NodeSet(n4, "device-guid", GuidStr(c.device_guid))
            n6 == NodeSet(n5, "device-name", c.device_name)
        IN  [node |-> WriteRange(c, n6), err |-> ""]

JoystickCondition_is_valid(c) ==
    AbstractCondition_is_valid(c) /\ c.input_type # None

(***************************************************************************)
(* VJoyCondition                                                           *)
(***************************************************************************)
VJoyCondition_init ==
    [kind |-> "vjoy", comparison |-> "", vjoy_id |-> 0,
     input_type |-> None, input_id |-> 0, range |-> <<0, 0>>]

VJoyCondition_from_xml(c, node) ==
    LET r1 == safe_read(node, "comparison", "str") IN
    IF r1.err # "" THEN Fail(c, r1.err) ELSE
    LET c1 == [c EXCEPT !.comparison = r1.val]
        r2 == safe_read(node, "input", "str") IN
    IF r2.err # "" THEN Fail(c1, r2.err) ELSE
    LET r3 == InputType_to_enum(r2.val) IN
    IF r3.err # "" THEN Fail(c1, r3.err) ELSE
    LET c2 == [c1 EXCEPT !.input_type = Some(r3.val)]
        r4 == safe_read(node, "id", "int") IN
    IF r4.err # "" THEN Fail(c2, r4.err) ELSE
    LET c3 == [c2 EXCEPT !.input_id = r4.val]
        r5 == safe_read(node, "vjoy-id", "int") IN
    IF r5.err # "" THEN Fail(c3, r5.err) ELSE
    ReadRange([c3 EXCEPT !.vjoy_id = r5.val], node)

VJoyCondition_to_xml(c) ==
    LET n0 == Element("condition")
        n1 == NodeSet(n0, "comparison", c.comparison)
        n2 == NodeSet(n1, "condition-type", "vjoy")
        t  == InputType_to_string(c.input_type)
    IN  IF t.err # "" THEN [node |-> n2, err |-> t.err] ELSE
        LET n3 == NodeSet(n2, "input", t.val)
            n4 == NodeSet(n3, "id", IntStr(c.input_id))
            n5 == NodeSet(n4, "vjoy-id", IntStr(c.vjoy_id))
        IN  [node |-> WriteRange(c, n5), err |-> ""]

VJoyCondition_is_valid(c) ==
    AbstractCondition_is_valid(c) /\ c.input_type # None

(***************************************************************************)
(* InputActionCondition                                                    *)
(***************************************************************************)
InputActionCondition_init == [kind |-> "action", comparison |-> ""]

InputActionCondition_from_xml(c, node) ==
    LET r1 == safe_read(node, "comparison", "str") IN
    IF r1.err # "" THEN Fail(c, r1.err) ELSE
    Done([c EXCEPT !.comparison = r1.val])

InputActionCondition_to_xml(c) ==
    LET n0 == Element("condition")
        n1 == NodeSet(n0, "condition-type", "action")
        n2 == NodeSet(n1, "input", "action")
        n3 == NodeSet(n2, "comparison", c.comparison)
    IN  [node |-> n3, err |-> ""]

(***************************************************************************)
(* Virtual dispatch on the instance's class                                *)
(***************************************************************************)
Kinds == {"keyboard", "joystick", "vjoy", "action"}

from_xml(c, node) ==
    CASE c.kind = "keyboard" -> KeyboardCondition_from_xml(c, node)
      [] c.kind = "joystick" -> JoystickCondition_from_xml(c, node)
      [] c.kind = "vjoy"     -> VJoyCondition_from_xml(c, node)
      [] c.kind = "action"   -> InputActionCondition_from_xml(c, node)

to_xml(c) ==
    CASE c.kind = "keyboard" -> KeyboardCondition_to_xml(c)
      [] c.kind = "joystick" -> JoystickCondition_to_xml(c)
      [] c.kind = "vjoy"     -> VJoyCondition_to_xml(c)
      [] c.kind = "action"   -> InputActionCondition_to_xml(c)

is_valid(c) ==
    CASE c.kind = "keyboard" -> KeyboardCondition_is_valid(c)
      [] c.kind = "joystick" -> JoystickCondition_is_valid(c)
      [] c.kind = "vjoy"     -> VJoyCondition_is_valid(c)
      [] c.kind = "action"   -> AbstractCondition_is_valid(c)

\* ActivationCondition.condition_lookup[condition_type]()
condition_lookup(kind) ==
    CASE kind = "keyboard" -> KeyboardCondition_init
      [] kind = "joystick" -> JoystickCondition_init
      [] kind = "vjoy"     -> VJoyCondition_init
      [] kind = "action"   -> InputActionCondition_init

(***************************************************************************)
(* ActivationCondition                                                     *)
(***************************************************************************)
Rules == {"All", "Any"}

\* ActivationCondition.rule_lookup, both directions
rule_lookup(key) ==
    CASE key = "all" -> Ok("All")
      [] key = "any" -> Ok("Any")
      [] key = "All" -> Ok("all")
      [] key = "Any" -> Ok("any")
      [] OTHER -> Raise("KeyError")

\* the body of the for loop of ActivationCondition.from_xml
RECURSIVE FromXmlLoop(_, _)
FromXmlLoop(ac, nodes) ==
    IF nodes = <<>> THEN Done(ac) ELSE
    LET t == safe_read(nodes[1], "condition-type", "str") IN
    IF t.err # "" THEN Fail(ac, t.err) ELSE
    IF t.val \notin Kinds THEN Fail(ac, "KeyError") ELSE
    LET d == from_xml(condition_lookup(t.val), nodes[1]) IN
    IF d.err # "" THEN Fail(ac, d.err) ELSE
    FromXmlLoop([ac EXCEPT !.conditions = Append(@, d.obj)], Tail(nodes))

\* ActivationCondition.from_xml emptying the list before it decodes
ActivationCondition_from_xml_replacing(ac, node) ==
    LET r == safe_read(node, "rule", "str") IN
    IF r.err # "" THEN Fail(ac, r.err) ELSE
    LET e == rule_lookup(r.val) IN
    IF e.err # "" THEN Fail(ac, e.err) ELSE
    FromXmlLoop([rule |-> e.val, conditions |-> <<>>],
                NodeFindall(node, "condition"))

ActivationCondition_from_xml(ac, node) ==
    LET r == safe_read(node, "rule", "str") IN
    IF r.err # "" THEN Fail(ac, r.err) ELSE
    LET e == rule_lookup(r.val) IN
    IF e.err # "" THEN Fail(ac, e.err) ELSE
    FromXmlLoop([ac EXCEPT !.rule = e.val], NodeFindall(node, "condition"))

\* the for loop of ActivationCondition.to_xml
RECURSIVE ToXmlLoop(_, _)
ToXmlLoop(node, conditions) ==
    IF conditions = <<>> THEN [node |-> node, err |-> ""] ELSE
    IF ~is_valid(conditions[1]) THEN ToXmlLoop(node, Tail(conditions)) ELSE
    LET r == to_xml(conditions[1]) IN
    IF r.err # "" THEN [node |-> node, err |-> r.err] ELSE
    ToXmlLoop(NodeAppend(node, r.node), Tail(conditions))

\* the for loop of to_xml without the is_valid() test
RECURSIVE ToXmlLoop_unfiltered(_, _)
ToXmlLoop_unfiltered(node, conditions) ==
    IF conditions = <<>> THEN [node |-> node, err |-> ""] ELSE
    LET r == to_xml(conditions[1]) IN
    IF r.err # "" THEN [node |-> node, err |-> r.err] ELSE
    ToXmlLoop_unfiltered(NodeAppend(node, r.node), Tail(conditions))

\* ActivationCondition.to_xml encoding every child, valid or not
ActivationCondition_to_xml_unfiltered(ac) ==
    LET n0 == Element("activation-condition")
        r  == rule_lookup(ac.rule)
    IN  IF r.err # "" THEN [node |-> n0, err |-> r.err] ELSE
        ToXmlLoop_unfiltered(NodeSet(n0, "rule", r.val), ac.conditions)

ActivationCondition_to_xml(ac) ==
    LET n0 == Element("activation-condition")
        r  == rule_lookup(ac.rule)
    IN  IF r.err # "" THEN [node |-> n0, err |-> r.err] ELSE
        ToXmlLoop(NodeSet(n0, "rule", r.val), ac.conditions)

(***************************************************************************)
(* Values the editor assigns and elements the decoder is handed            *)
(***************************************************************************)
Comparisons == {"", "pressed"}
ScanCodes == {None, Some(30)}
Extendeds == {None, Some(TRUE), Some(FALSE)}
OptInputTypes == {None} \cup {Some(t) : t \in InputTypes}
InputIds == {0, 1}
DeviceGuids == {0, 1}
DeviceNames == {"", "Stick"}
VJoyIds == {0, 2}
Ranges == {<<0, 0>>, <<-25, 75>>}

\* the instances one field assignment away from c
Assigned(c) ==
    {[c EXCEPT !.comparison = v] : v \in Comparisons}
    \cup (IF c.kind = "keyboard"
          THEN {[c EXCEPT !.scan_code = v] : v \in ScanCodes}
               \cup {[c EXCEPT !.is_extended = v] : v \in Extendeds}
          ELSE {})
    \cup (IF c.kind \in {"joystick", "vjoy"}
          THEN {[c EXCEPT !.input_type = v] : v \in OptInputTypes}
               \cup {[c EXCEPT !.input_id = v] : v \in InputIds}
               \cup {[c EXCEPT !.range = v] : v \in Ranges}
          ELSE {})
    \cup (IF c.kind = "joystick"
          THEN {[c EXCEPT !.device_guid = v] : v \in DeviceGuids}
               \cup {[c EXCEPT !.device_name = v] : v \in DeviceNames}
          ELSE {})
    \cup (IF c.kind = "vjoy"
          THEN {[c EXCEPT !.vjoy_id = v] : v \in VJoyIds}
          ELSE {})

\* an element with the attributes of `names` whose value in `vals` is set
RECURSIVE WithAttrs(_, _, _)
WithAttrs(node, names, vals) ==
    IF names = <<>> THEN node
    ELSE WithAttrs(
            IF vals[1] = None THEN node ELSE NodeSet(node, names[1], vals[1][1]),
            Tail(names), Tail(vals))

Opt(S) == {None} \cup {Some(v) : v \in S}

KeyboardNodes ==
    { WithAttrs(NodeSet(Element("condition"), "condition-type", "keyboard"),
                <<"input", "comparison", "scan-code", "extended">>,
                <<Some("keyboard"), c, s, e>>) :
        c \in Opt({"", "pressed"}),
        s \in Opt({"30", "030", "x"}),
        e \in Opt({"true", "False", "maybe"}) }

JoystickNodes ==
    { WithAttrs(NodeSet(Element("condition"), "condition-type", "joystick"),
                <<"comparison", "input", "id", "device-guid", "device-name",
                  "range-low", "range-high">>,
                <<Some("pressed"), i, Some("1"),
                  Some("{4d1e55b2-f16f-11cf-88cb-001111000030}"),
                  Some("Stick"), lo, hi>>) :
        i \in Opt({"axis", "button", "mouse"}),
        lo \in Opt({"-0.25", "abc"}), hi \in Opt({"0.75"}) }
    \cup
    { WithAttrs(NodeSet(Element("condition"), "condition-type", "joystick"),
                <<"comparison", "input", "id", "device-guid", "device-name">>,
                <<Some(""), Some("button"), n, g, d>>) :
        n \in {Some("1"), Some("x")},
        g \in Opt({"4d1e55b2-f16f-11cf-88cb-001111000030", "0"}),
        d \in Opt({"Stick"}) }

VJoyNodes ==
    { WithAttrs(NodeSet(Element("condition"), "condition-type", "vjoy"),
                <<"comparison", "input", "id", "vjoy-id",
                  "range-low", "range-high">>,
                <<Some("pressed"), i, Some("1"), Some("2"), lo, hi>>) :
        i \in Opt({"axis", "hat"}),
        lo \in Opt({"-1.0", "abc"}), hi \in Opt({"1", "1.0"}) }
    \cup
    { WithAttrs(NodeSet(Element("condition"), "condition-type", "vjoy"),
                <<"comparison", "input", "id", "vjoy-id">>,
                <<c, Some("button"), Some("+1"), v>>) :
        c \in Opt({""}), v \in Opt({"2", "x"}) }

ActionNodes ==
    { WithAttrs(NodeSet(Element("condition"), "condition-type", "action"),
                <<"input", "comparison">>, <<i, c>>) :
        i \in Opt({"action"}), c \in Opt({"", "pressed"}) }

NodesFor(kind) ==
    CASE kind = "keyboard" -> KeyboardNodes
      [] kind = "joystick" -> JoystickNodes
      [] kind = "vjoy"     -> VJoyNodes
      [] kind = "action"   -> ActionNodes

NoNode == Element("none")

(***************************************************************************)
(* One condition instance: construction, field assignment, from_xml,       *)
(* to_xml, and decoding the element to_xml returned into a fresh instance  *)
(***************************************************************************)
EmptyComposite == [rule |-> "All", conditions |-> <<>>]

AcInit ==
    /\ self = EmptyComposite
    /\ inNode = NoNode
    /\ pre = EmptyComposite
    /\ out = NoNode
    /\ err = ""
    /\ last = "init"

CondInit ==
    /\ cond = KeyboardCondition_init
    /\ cnode = NoNode
    /\ dec = cond
    /\ cerr = ""
    /\ clast = "init"
    /\ cpre = cond

Oracles ==
    [key_state : BOOLEAN, button_state : BOOLEAN, axis_value : {0, 90},
     current_input_state : BOOLEAN]

EvInit ==
    /\ oracle = [key_state |-> FALSE, button_state |-> FALSE,
                 axis_value |-> 0, current_input_state |-> FALSE]
    /\ result = FALSE
    /\ elast = "init"

AlInit ==
    /\ heap = << <<>> >>
    /\ caller = 1
    /\ acs = <<>>
    /\ anode = NoNode
    /\ aerr = ""
    /\ alast = "init"

Init == CondInit /\ AcInit /\ EvInit /\ AlInit

Construct(kind) ==
    /\ cond' = condition_lookup(kind)
    /\ cnode' = NoNode
    /\ dec' = cond'
    /\ cerr' = ""
    /\ clast' = "init"
    /\ cpre' = cond'
    /\ UNCHANGED <<acVars, evVars, alVars>>

Assign ==
    /\ \E c \in Assigned(cond) : cond' = c
    /\ cond' # cond
    /\ cnode' = NoNode
    /\ dec' = condition_lookup(cond.kind)
    /\ cerr' = ""
    /\ clast' = "assign"
    /\ cpre' = cond'
    /\ UNCHANGED <<acVars, evVars, alVars>>

CondFromXml ==
    /\ \E n \in NodesFor(cond.kind) :
         LET r == from_xml(cond, n) IN
         /\ cond' = r.obj
         /\ cerr' = r.err
         /\ cnode' = n
    /\ dec' = condition_lookup(cond.kind)
    /\ clast' = "from_xml"
    /\ cpre' = cond
    /\ UNCHANGED <<acVars, evVars, alVars>>

CondToXml ==
    /\ LET r == to_xml(cond) IN
         /\ cnode' = r.node
         /\ cerr' = r.err
    /\ dec' = condition_lookup(cond.kind)
    /\ clast' = "to_xml"
    /\ cpre' = cond
    /\ UNCHANGED <<cond>>
    /\ UNCHANGED <<acVars, evVars, alVars>>

\* decode(encode(c)): the element to_xml returned, read by a new instance
CondDecode ==
    /\ clast = "to_xml"
    /\ cerr = ""
    /\ LET r == from_xml(condition_lookup(cond.kind), cnode) IN
         /\ dec' = r.obj
         /\ cerr' = r.err
    /\ clast' = "decode"
    /\ cpre' = cond
    /\ UNCHANGED <<cond, cnode>>
    /\ UNCHANGED <<acVars, evVars, alVars>>

CondNext ==
    \/ \E k \in Kinds : Construct(k)
    \/ Assign
    \/ CondFromXml
    \/ CondToXml
    \/ CondDecode

SpecCond == Init /\ [][CondNext]_vars

(***************************************************************************)
(* The composite: the editor appends new conditions to the list and        *)
(* assigns their fields and the rule; from_xml and to_xml are called       *)
(***************************************************************************)
MaxConds == 2

\* field assignments the editor makes on a child of the composite
AcAssigned(c) ==
    {[c EXCEPT !.comparison = "pressed"]}
    \cup (IF c.kind \in {"joystick", "vjoy"}
          THEN {[c EXCEPT !.input_type = Some("JoystickButton")]}
          ELSE {})

CondElement(type, names, vals) ==
    WithAttrs(NodeSet(Element("condition"), "condition-type", type),
              names, [i \in 1..Len(vals) |-> Some(vals[i])])

KeyboardChild ==
    CondElement("keyboard",
        <<"input", "comparison", "scan-code", "extended">>,
        <<"keyboard", "pressed", "30", "false">>)

KeyboardChildBadBool ==
    CondElement("keyboard",
        <<"input", "comparison", "scan-code", "extended">>,
        <<"keyboard", "pressed", "30", "maybe">>)

JoystickAxisChild ==
    CondElement("joystick",
        <<"comparison", "input", "id", "device-guid", "device-name",
          "range-low", "range-high">>,
        <<"pressed", "axis", "1", "{4d1e55b2-f16f-11cf-88cb-001111000030}",
          "Stick", "-0.25", "0.75">>)

VJoyButtonChild ==
    CondElement("vjoy", <<"comparison", "input", "id", "vjoy-id">>,
                <<"pressed", "button", "1", "2">>)

ActionChild ==
    CondElement("action", <<"input", "comparison">>, <<"action", "pressed">>)

MouseChild ==
    CondElement("mouse", <<"input", "comparison">>, <<"mouse", "pressed">>)

\* a child element that is not a <condition>
OtherChild == NodeSet(Element("comment"), "text", "x")

\* the child lists of the documents handed to ActivationCondition.from_xml
ChildSeqs ==
    { <<>>, <<KeyboardChild>>, <<JoystickAxisChild>>, <<VJoyButtonChild>>,
      <<ActionChild>>, <<MouseChild>>, <<KeyboardChildBadBool>>,
      <<KeyboardChild, MouseChild>>, <<ActionChild, KeyboardChildBadBool>>,
      <<OtherChild, VJoyButtonChild>>, <<JoystickAxisChild, KeyboardChild>>,
      <<KeyboardChild, OtherChild, ActionChild>> }

Document(rule, children) ==
    [tag |-> "activation-condition",
     attrib |-> IF rule = None THEN <<>> ELSE [k \in {"rule"} |-> rule[1]],
     children |-> children]

AcNodes ==
    { Document(Some(r), cs) : r \in {"all", "any"}, cs \in ChildSeqs }
    \cup
    { Document(r, cs) : r \in {None, Some("xor")},
                        cs \in {<<>>, <<KeyboardChild>>} }


AcAppend(kind) ==
    /\ Len(self.conditions) < MaxConds
    /\ self' = [self EXCEPT !.conditions = Append(@, condition_lookup(kind))]
    /\ pre' = self'
    /\ inNode' = NoNode
    /\ out' = NoNode
    /\ err' = ""
    /\ last' = "append"
    /\ UNCHANGED <<condVars, evVars, alVars>>

AcAssign ==
    /\ \E i \in 1..Len(self.conditions) :
         \E c \in AcAssigned(self.conditions[i]) :
            self' = [self EXCEPT !.conditions[i] = c]
    /\ self' # self
    /\ pre' = self'
    /\ inNode' = NoNode
    /\ out' = NoNode
    /\ err' = ""
    /\ last' = "assign"
    /\ UNCHANGED <<condVars, evVars, alVars>>

AcSetRule(r) ==
    /\ self.rule # r
    /\ self' = [self EXCEPT !.rule = r]
    /\ pre' = self'
    /\ inNode' = NoNode
    /\ out' = NoNode
    /\ err' = ""
    /\ last' = "set_rule"
    /\ UNCHANGED <<condVars, evVars, alVars>>

AcFromXml ==
    /\ \E n \in AcNodes :
         /\ Len(self.conditions) + Len(NodeFindall(n, "condition")) <= MaxConds
         /\ LET r == ActivationCondition_from_xml(self, n) IN
              /\ self' = r.obj
              /\ err' = r.err
         /\ inNode' = n
    /\ pre' = self
    /\ out' = NoNode
    /\ last' = "from_xml"
    /\ UNCHANGED <<condVars, evVars, alVars>>

\* to_xml; a call that directly follows a successful from_xml keeps the
\* record of that from_xml (pre, inNode)
AcToXml ==
    /\ last \notin {"to_xml", "from_xml;to_xml"}
    /\ LET r == ActivationCondition_to_xml(self) IN
         /\ out' = r.node
         /\ err' = r.err
    /\ IF last = "from_xml" /\ err = ""
       THEN /\ last' = "from_xml;to_xml"
            /\ UNCHANGED <<pre, inNode>>
       ELSE /\ last' = "to_xml"
            /\ pre' = self
            /\ inNode' = NoNode
    /\ UNCHANGED self
    /\ UNCHANGED <<condVars, evVars, alVars>>

Next ==
    \/ \E k \in Kinds : AcAppend(k)
    \/ AcAssign
    \/ \E r \in Rules : AcSetRule(r)
    \/ AcFromXml
    \/ AcToXml

Spec == Init /\ [][Next]_vars

(***************************************************************************)
(* Evaluation against an input-state oracle.  base_classes.py defines no   *)
(* evaluator; the operators below follow the design document's sections    *)
(* 4.2 and 4.4.                                                            *)
(***************************************************************************)
\* a condition's evaluate(oracle): false when the condition is not valid
Condition_evaluate(c, o) ==
    IF ~is_valid(c) THEN FALSE ELSE
    LET pressed ==
            CASE c.kind = "keyboard" -> o.key_state
              [] c.kind = "action" -> o.current_input_state
              [] OTHER -> o.button_state
    IN  IF c.kind \in {"joystick", "vjoy"}
           /\ c.input_type = Some("JoystickAxis")
        THEN LET inside == c.range[1] <= o.axis_value
                           /\ o.axis_value <= c.range[2]
             IN  CASE c.comparison = "inside" -> inside
                   [] c.comparison = "outside" -> ~inside
                   [] OTHER -> FALSE
        ELSE CASE c.comparison = "pressed" -> pressed
               [] c.comparison = "released" -> ~pressed
               [] OTHER -> FALSE

RECURSIVE EvaluateAll(_, _)
EvaluateAll(conditions, o) ==
    IF conditions = <<>> THEN TRUE
    ELSE IF ~Condition_evaluate(conditions[1], o) THEN FALSE
    ELSE EvaluateAll(Tail(conditions), o)

RECURSIVE EvaluateAny(_, _)
EvaluateAny(conditions, o) ==
    IF conditions = <<>> THEN FALSE
    ELSE IF Condition_evaluate(conditions[1], o) THEN TRUE
    ELSE EvaluateAny(Tail(conditions), o)

\* an evaluate that keeps the outcome of the last child instead of folding
ActivationCondition_evaluate_last(ac, o) ==
    IF ac.conditions = <<>> THEN ac.rule = "All"
    ELSE Condition_evaluate(ac.conditions[Len(ac.conditions)], o)

ActivationCondition_evaluate(ac, o) ==
    IF ac.rule = "All" THEN EvaluateAll(ac.conditions, o)
    ELSE EvaluateAny(ac.conditions, o)

\* conditions the evaluation scenarios are built from
EvalConds ==
    { [KeyboardCondition_init EXCEPT !.comparison = "pressed",
          !.scan_code = Some(57), !.is_extended = Some(FALSE)],
      [KeyboardCondition_init EXCEPT !.scan_code = Some(57),
          !.is_extended = Some(FALSE)],
      [JoystickCondition_init EXCEPT !.comparison = "pressed",
          !.input_type = Some("JoystickButton"), !.input_id = 1,
          !.device_guid = 1],
      [JoystickCondition_init EXCEPT !.comparison = "inside",
          !.input_type = Some("JoystickAxis"), !.input_id = 1,
          !.device_guid = 1, !.range = <<-25, 75>>],
      [VJoyCondition_init EXCEPT !.comparison = "outside",
          !.input_type = Some("JoystickAxis"), !.input_id = 2,
          !.vjoy_id = 1, !.range = <<-100, 75>>],
      [InputActionCondition_init EXCEPT !.comparison = "released"] }

EvAppend ==
    /\ Len(self.conditions) < MaxConds
    /\ \E c \in EvalConds :
         self' = [self EXCEPT !.conditions = Append(@, c)]
    /\ elast' = "append"
    /\ result' = FALSE
    /\ UNCHANGED <<oracle, inNode, pre, out, err, last, condVars, alVars>>

\* the caller reorders the list: two neighbours change places
EvSwap ==
    /\ \E i \in 1..(Len(self.conditions) - 1) :
         self' = [self EXCEPT !.conditions[i] = self.conditions[i + 1],
                              !.conditions[i + 1] = self.conditions[i]]
    /\ self' # self
    /\ elast' = "swap"
    /\ result' = FALSE
    /\ UNCHANGED <<oracle, inNode, pre, out, err, last, condVars, alVars>>

EvSetRule ==
    /\ self' = [self EXCEPT !.rule = IF @ = "All" THEN "Any" ELSE "All"]
    /\ elast' = "set_rule"
    /\ result' = FALSE
    /\ UNCHANGED <<oracle, inNode, pre, out, err, last, condVars, alVars>>

EvSetOracle ==
    /\ \E o \in Oracles : oracle' = o
    /\ oracle' # oracle
    /\ elast' = "set_oracle"
    /\ result' = FALSE
    /\ UNCHANGED <<self, inNode, pre, out, err, last, condVars, alVars>>

Evaluate ==
    /\ elast # "evaluate"
    /\ result' = ActivationCondition_evaluate(self, oracle)
    /\ elast' = "evaluate"
    /\ UNCHANGED <<self, oracle, inNode, pre, out, err, last, condVars, alVars>>

EvalNext ==
    \/ EvAppend
    \/ EvSwap
    \/ EvSetRule
    \/ EvSetOracle
    \/ Evaluate

SpecEval == Init /\ [][EvalNext]_vars

(***************************************************************************)
(* The list behind the composite.  A Python list is an object: the caller  *)
(* builds one, hands it to ActivationCondition(conditions, rule), and may  *)
(* go on changing it.  Lists live in heap; a composite's conditions field  *)
(* is the index of the list it refers to.                                  *)
(***************************************************************************)
MaxComposites == 2

\* an __init__ that stores list(conditions), a copy, instead of the list
ActivationCondition_init_copying(h, conditions, rule) ==
    [obj |-> [rule |-> rule, conditions |-> Len(h) + 1],
     heap |-> Append(h, h[conditions])]

\* ActivationCondition.__init__: self.conditions = conditions
ActivationCondition_init(h, conditions, rule) ==
    [obj |-> [rule |-> rule, conditions |-> conditions], heap |-> h]

\* the composite with the content of its list, as from_xml reads it
Deref(ac) == [rule |-> ac.rule, conditions |-> heap[ac.conditions]]

RemoveAt(seq, i) ==
    [j \in 1..(Len(seq) - 1) |-> IF j < i THEN seq[j] ELSE seq[j + 1]]

\* the elements handed to from_xml of the composites sharing the list
AlNodes ==
    { Document(Some("any"), <<KeyboardChild>>),
      Document(Some("all"), <<VJoyButtonChild>>),
      Document(Some("any"), <<ActionChild, KeyboardChildBadBool>>),
      Document(Some("xor"), <<KeyboardChild>>) }

AlConstruct(r) ==
    /\ Len(acs) < MaxComposites
    /\ LET n == ActivationCondition_init(heap, caller, r) IN
         /\ acs' = Append(acs, n.obj)
         /\ heap' = n.heap
    /\ anode' = NoNode
    /\ aerr' = ""
    /\ alast' = "construct"
    /\ UNCHANGED <<caller, condVars, acVars, evVars>>

\* the caller's conditions.append(...) of a new condition
AlCallerAppend(kind) ==
    /\ Len(heap[caller]) < MaxConds
    /\ heap' = [heap EXCEPT ![caller] = Append(@, condition_lookup(kind))]
    /\ anode' = NoNode
    /\ aerr' = ""
    /\ alast' = "append"
    /\ UNCHANGED <<caller, acs, condVars, acVars, evVars>>

\* the caller's del conditions[i]
AlCallerRemove ==
    /\ \E i \in 1..Len(heap[caller]) :
         heap' = [heap EXCEPT ![caller] = RemoveAt(@, i)]
    /\ anode' = NoNode
    /\ aerr' = ""
    /\ alast' = "remove"
    /\ UNCHANGED <<caller, acs, condVars, acVars, evVars>>

\* from_xml of one of the composites: self.rule is assigned, the decoded
\* conditions are appended to the list self.conditions refers to
AlFromXml ==
    /\ \E k \in 1..Len(acs) : \E n \in AlNodes :
         /\ Len(heap[acs[k].conditions]) + Len(NodeFindall(n, "condition"))
                <= MaxConds
         /\ LET r == ActivationCondition_from_xml(Deref(acs[k]), n) IN
              /\ acs' = [acs EXCEPT ![k].rule = r.obj.rule]
              /\ heap' = [heap EXCEPT ![acs[k].conditions] = r.obj.conditions]
              /\ aerr' = r.err
         /\ anode' = n
    /\ alast' = "from_xml"
    /\ UNCHANGED <<caller, condVars, acVars, evVars>>

AliasNext ==
    \/ \E r \in Rules : AlConstruct(r)
    \/ \E k \in {"keyboard", "joystick"} : AlCallerAppend(k)
    \/ AlCallerRemove
    \/ AlFromXml

SpecAlias == Init /\ [][AliasNext]_vars

(***************************************************************************)
(* Properties of one condition instance                                    *)
(***************************************************************************)

\* C1: for every valid instance c of any variant, decoding c.to_xml() into
\* a fresh instance of the same variant succeeds and yields an instance
\* equal to c in every field.
C1_RoundTrip ==
    (clast = "decode" /\ is_valid(cond)) => (cerr = "" /\ dec = cond)

VariantRequirement(c) ==
    CASE c.kind = "keyboard" -> c.scan_code # None /\ c.is_extended # None
      [] c.kind \in {"joystick", "vjoy"} -> c.input_type # None
      [] c.kind = "action" -> TRUE

\* the instances that differ from c in one field is_valid is not to read
OtherFieldEdits(c) ==
    { d \in Assigned(c) :
        /\ d.comparison = c.comparison
        /\ c.kind = "keyboard" =>
             d.scan_code = c.scan_code /\ d.is_extended = c.is_extended
        /\ c.kind \in {"joystick", "vjoy"} => d.input_type = c.input_type }

\* C3: in every state a condition reaches by construction, assignment or
\* from_xml, is_valid() is true exactly when comparison is not "" and the
\* variant's requirement holds (Keyboard: scan_code and is_extended set;
\* Joystick, VJoy: input_type set; InputAction: nothing more), and no other
\* field changes the result.
C3_IsValidIff ==
    /\ is_valid(cond) <=> (cond.comparison # "" /\ VariantRequirement(cond))
    /\ \A d \in OtherFieldEdits(cond) : is_valid(d) <=> is_valid(cond)

C3_Witness ==
    /\ clast = "from_xml"
    /\ cerr # ""
    /\ cond.kind = "keyboard"
    /\ cond.comparison # ""
    /\ cond.scan_code # None
    /\ cond.is_extended = None
    /\ ~is_valid(cond)

IsIntLiteral(s) == \E p \in IntLiterals : p[1] = s
IsGuidLiteral(s) == \E p \in GuidLiterals : p[1] = s

\* a joystick or vjoy element for a button or hat whose attributes other
\* than range-low and range-high are present and well formed
NonAxisWellFormed(n, kind) ==
    /\ NodeHas(n, "comparison")
    /\ NodeHas(n, "input") /\ n.attrib["input"] \in {"button", "hat"}
    /\ NodeHas(n, "id") /\ IsIntLiteral(n.attrib["id"])
    /\ kind = "joystick" =>
         /\ NodeHas(n, "device-guid") /\ IsGuidLiteral(n.attrib["device-guid"])
         /\ NodeHas(n, "device-name")
    /\ kind = "vjoy" =>
         NodeHas(n, "vjoy-id") /\ IsIntLiteral(n.attrib["vjoy-id"])

\* C8: a Joystick or VJoy to_xml writes range-low and range-high exactly
\* when input_type is JoystickAxis (both or neither), and from_xml of a
\* button or hat element succeeds whatever its range attributes are, absent
\* ones included.
C8_RangeIffAxis ==
    /\ (clast = "to_xml" /\ cerr = "" /\ cond.kind \in {"joystick", "vjoy"}) =>
         /\ NodeHas(cnode, "range-low")
              <=> cond.input_type = Some("JoystickAxis")
         /\ NodeHas(cnode, "range-high")
              <=> cond.input_type = Some("JoystickAxis")
    /\ (/\ clast = "from_xml"
        /\ cond.kind \in {"joystick", "vjoy"}
        /\ NonAxisWellFormed(cnode, cond.kind)) => cerr = ""

C8_Witness ==
    /\ clast = "from_xml"
    /\ cerr = ""
    /\ cond.kind = "joystick"
    /\ cond.input_type = Some("JoystickButton")
    /\ ~NodeHas(cnode, "range-low")
    /\ ~NodeHas(cnode, "range-high")

(***************************************************************************)
(* Properties of the composite                                             *)
(***************************************************************************)
Encoded == last \in {"to_xml", "from_xml;to_xml"}

ValidChildren(ac) == SelectSeq(ac.conditions, is_valid)

\* C2: to_xml emits one <condition> child per valid condition, in order,
\* and none for an invalid one; decoding the emitted element into an empty
\* composite succeeds and gives exactly the valid conditions, in order.
C2_EncodeValidChildren ==
    (Encoded /\ err = "") =>
        LET valid == ValidChildren(self)
            r == ActivationCondition_from_xml(EmptyComposite, out)
        IN  /\ Len(out.children) = Len(valid)
            /\ \A i \in 1..Len(valid) : out.children[i] = to_xml(valid[i]).node
            /\ r.err = ""
            /\ r.obj.conditions = valid

CanonInt(s) == python_int(s).err = "" /\ IntStr(python_int(s).val) = s
CanonFloat(s) == python_float(s).err = "" /\ FloatStr(python_float(s).val) = s
CanonGuid(s) == s = "{4d1e55b2-f16f-11cf-88cb-001111000030}"

RangeAttrs(n) ==
    IF n.attrib["input"] = "axis" THEN {"range-low", "range-high"} ELSE {}

\* a <condition> element in the form the schema of the profile prescribes
CanonicalChild(n) ==
    /\ n.tag = "condition"
    /\ {"condition-type", "input", "comparison"} \subseteq DOMAIN n.attrib
    /\ n.attrib["comparison"] # ""
    /\ CASE n.attrib["condition-type"] = "keyboard" ->
              /\ DOMAIN n.attrib = {"condition-type", "input", "comparison",
                                    "scan-code", "extended"}
              /\ n.attrib["input"] = "keyboard"
              /\ CanonInt(n.attrib["scan-code"])
              /\ n.attrib["extended"] \in {"true", "false"}
         [] n.attrib["condition-type"] = "joystick" ->
              /\ n.attrib["input"] \in {"axis", "button", "hat"}
              /\ DOMAIN n.attrib = {"condition-type", "input", "comparison",
                                    "id", "device-guid", "device-name"}
                                   \cup RangeAttrs(n)
              /\ CanonInt(n.attrib["id"])
              /\ CanonGuid(n.attrib["device-guid"])
              /\ \A k \in RangeAttrs(n) : CanonFloat(n.attrib[k])
         [] n.attrib["condition-type"] = "vjoy" ->
              /\ n.attrib["input"] \in {"axis", "button", "hat"}
              /\ DOMAIN n.attrib = {"condition-type", "input", "comparison",
                                    "id", "vjoy-id"} \cup RangeAttrs(n)
              /\ CanonInt(n.attrib["id"])
              /\ CanonInt(n.attrib["vjoy-id"])
              /\ \A k \in RangeAttrs(n) : CanonFloat(n.attrib[k])
         [] n.attrib["condition-type"] = "action" ->
              /\ DOMAIN n.attrib = {"condition-type", "input", "comparison"}
              /\ n.attrib["input"] = "action"
         [] OTHER -> FALSE

Canonical(n) ==
    /\ n.tag = "activation-condition"
    /\ DOMAIN n.attrib = {"rule"}
    /\ n.attrib["rule"] \in {"all", "any"}
    /\ \A i \in 1..Len(n.children) : CanonicalChild(n.children[i])

\* C4: decoding a canonical element into an empty composite and encoding
\* the composite again gives an element equal to the input: same tag, same
\* children in the same order, same attributes with the same string values.
C4_CanonicalRoundTrip ==
    (last = "from_xml;to_xml" /\ pre.conditions = <<>> /\ Canonical(inNode))
        => (err = "" /\ out = inNode)

BadRule(n) == NodeHas(n, "rule") /\ n.attrib["rule"] \notin {"all", "any"}

BadConditionType(n) ==
    \E i \in 1..Len(n.children) :
        /\ n.children[i].tag = "condition"
        /\ NodeHas(n.children[i], "condition-type")
        /\ n.children[i].attrib["condition-type"] \notin Kinds

\* C5: from_xml of an element whose rule is neither "all" nor "any", or
\* with a <condition> child of unknown condition-type, ends in SchemaError.
C5_UnknownIsSchemaError ==
    (last = "from_xml" /\ (BadRule(inNode) \/ BadConditionType(inNode)))
        => err = "SchemaError"

\* C6: a from_xml that ends in an error leaves the composite as it was
\* before the call: same rule, same conditions list.
C6_NoPartialDecode ==
    (last = "from_xml" /\ err # "") => self = pre

\* C7: to_xml never raises, whatever mix of valid and invalid children the
\* composite holds, and no Joystick or VJoy child is encoded with its
\* input_type unset: every emitted joystick or vjoy element has an input.
C7_EncodeTotal ==
    Encoded =>
        /\ err = ""
        /\ \A i \in 1..Len(out.children) :
              out.children[i].attrib["condition-type"] \in {"joystick", "vjoy"}
                  => NodeHas(out.children[i], "input")

C7_Witness ==
    /\ Encoded
    /\ \E i \in 1..Len(self.conditions) :
          /\ self.conditions[i].kind = "joystick"
          /\ self.conditions[i].comparison # ""
          /\ self.conditions[i].input_type = None
    /\ \E i \in 1..Len(self.conditions) : is_valid(self.conditions[i])

ConditionNodes(n) == NodeFindall(n, "condition")

\* the instances the <condition> children of n decode to, in document order
DecodedChildren(n) ==
    [i \in 1..Len(ConditionNodes(n)) |->
        from_xml(condition_lookup(ConditionNodes(n)[i].attrib["condition-type"]),
                 ConditionNodes(n)[i]).obj]

\* C9: after a successful from_xml, rule is the value the rule attribute
\* names and conditions is the list held before the call followed by one
\* decoded condition per <condition> child, in document order, each of the
\* variant its condition-type names; nothing is removed or reordered.
C9_DecodeAppends ==
    (last = "from_xml" /\ err = "") =>
        /\ \/ inNode.attrib["rule"] = "all" /\ self.rule = "All"
           \/ inNode.attrib["rule"] = "any" /\ self.rule = "Any"
        /\ self.conditions = pre.conditions \o DecodedChildren(inNode)
        /\ \A i \in 1..Len(ConditionNodes(inNode)) :
              self.conditions[Len(pre.conditions) + i].kind
                  = ConditionNodes(inNode)[i].attrib["condition-type"]

\* the same element decoded twice into one composite: every condition twice
C9_Witness ==
    /\ last = "from_xml"
    /\ err = ""
    /\ pre.conditions # <<>>
    /\ pre.conditions = DecodedChildren(inNode)
    /\ self.conditions = pre.conditions \o pre.conditions

(***************************************************************************)
(* Properties of the evaluation                                            *)
(***************************************************************************)
Injective(f) == \A i, j \in DOMAIN f : f[i] = f[j] => i = j

Perms(n) == { p \in [1..n -> 1..n] : Injective(p) }

\* C10: evaluate returns the AND of the children's outcomes under All
\* (true for no children) and the OR under Any (false for no children),
\* and returns the same for every permutation of the children.
C10_EvaluateFolds ==
    elast = "evaluate" =>
        LET cs == self.conditions
            n == Len(cs)
        IN  /\ self.rule = "All" =>
                 (result <=> \A i \in 1..n : Condition_evaluate(cs[i], oracle))
            /\ self.rule = "Any" =>
                 (result <=> \E i \in 1..n : Condition_evaluate(cs[i], oracle))
            /\ \A p \in Perms(n) :
                 ActivationCondition_evaluate(
                     [self EXCEPT !.conditions = [i \in 1..n |-> cs[p[i]]]],
                     oracle) = result

\* scenario 3 of the design document: a pressed key and a released button
C10_Witness ==
    /\ elast = "evaluate"
    /\ self.rule = "All"
    /\ Len(self.conditions) = 2
    /\ Condition_evaluate(self.conditions[1], oracle)
    /\ ~Condition_evaluate(self.conditions[2], oracle)
    /\ result = FALSE

(***************************************************************************)
(* The range of a condition across from_xml                                *)
(***************************************************************************)
\* the element names a button or a hat as its input
NonAxisInput(n) ==
    NodeHas(n, "input") /\ n.attrib["input"] \in {"button", "hat"}

\* C12: a Joystick or VJoy from_xml of an element whose input is a button
\* or a hat leaves range as it was before the call: a new instance keeps
\* the constructor's [0.0, 0.0], an instance that held another range keeps
\* that one.
C12_RangeKeptUnlessAxis ==
    /\ (/\ clast = "from_xml"
        /\ cond.kind \in {"joystick", "vjoy"}
        /\ NonAxisInput(cnode)) => cond.range = cpre.range
    /\ (/\ clast = "decode"
        /\ cond.kind \in {"joystick", "vjoy"}
        /\ NonAxisInput(cnode)) => dec.range = <<0, 0>>

\* a successful button decode into an instance that held an axis range:
\* the range the instance ends with is not one the element determines
C12_Witness ==
    /\ clast = "from_xml"
    /\ cerr = ""
    /\ cond.kind = "joystick"
    /\ cpre.input_type = Some("JoystickAxis")
    /\ cond.input_type = Some("JoystickButton")
    /\ cpre.range = <<-25, 75>>
    /\ cond.range = <<-25, 75>>
    /\ from_xml(condition_lookup("joystick"), cnode).obj.range = <<0, 0>>

(***************************************************************************)
(* Properties of the list shared by caller and composites                  *)
(***************************************************************************)
IsSuffix(t, seq) ==
    /\ Len(t) <= Len(seq)
    /\ \A i \in 1..Len(t) : seq[Len(seq) - Len(t) + i] = t[i]

\* C11: the composite refers to the very list its constructor was given:
\* whatever the caller appends or removes and whatever from_xml decodes,
\* every composite's conditions and the caller's list are the same
\* sequence, and what one composite decodes ends every composite's
\* conditions.
C11_ListByReference ==
    /\ \A k \in 1..Len(acs) :
          /\ acs[k].conditions = caller
          /\ heap[acs[k].conditions] = heap[caller]
    /\ (alast = "from_xml" /\ aerr = "") =>
          \A k \in 1..Len(acs) :
              IsSuffix(DecodedChildren(anode), heap[acs[k].conditions])

\* two composites on one list, a condition of the caller's already in it,
\* and a from_xml that has just decoded another one
C11_Witness ==
    /\ Len(acs) = 2
    /\ alast = "from_xml"
    /\ aerr = ""
    /\ DecodedChildren(anode) # <<>>
    /\ Len(heap[caller]) > Len(DecodedChildren(anode))
    /\ heap[acs[1].conditions] = heap[acs[2].conditions]

====
